---------------------------- MODULE Spec2Model ----------------------------
(***************************************************************************)
(* OCR server (src/server/server.cpp): the ThreadPool (task queue, worker  *)
(* threads, destructor), OCRServiceImpl::ProcessImage (one blocking call   *)
(* per request, with a per-request mutex / condition variable / flag) and  *)
(* ThreadPool::process_image (recognition, retry and text clean-up).       *)
(*                                                                         *)
(* Strings are sequences of byte values.  Pointers held by an OCRTask are  *)
(* the index of the ProcessImage call whose stack frame they point into.   *)
(***************************************************************************)
EXTENDS Integers, Sequences, FiniteSets, TLC

NumWorkers == 2
MaxJobs == 3
MaxLen == 3

Workers == 1..NumWorkers
Jobs == 1..MaxJobs

-----------------------------------------------------------------------------
(* Text handling of process_image                                          *)

ErrInitText == <<91, 69, 82, 82, 79, 82, 58, 32, 84, 101, 115, 115, 101, 114, 97, 99, 116, 32, 105, 110, 105, 116, 105, 97, 108, 105, 122, 97, 116, 105, 111, 110, 32, 102, 97, 105, 108, 101, 100, 93>>
ErrOpenText == <<91, 69, 82, 82, 79, 82, 58, 32, 85, 110, 97, 98, 108, 101, 32, 116, 111, 32, 111, 112, 101, 110, 32, 105, 109, 97, 103, 101, 93>>
UnreadableText == <<91, 85, 78, 82, 69, 65, 68, 65, 66, 76, 69, 93>>

\* Byte values the recognition engine may put into its output: tab, newline,
\* carriage return, space, 'A', DEL and one byte above 127.
Bytes == {9, 10, 13, 32, 65, 127, 200}

RECURSIVE StringsOfLen(_)
StringsOfLen(n) ==
    IF n = 0 THEN {<<>>}
    ELSE {Append(s, c) : s \in StringsOfLen(n - 1), c \in Bytes}

Strings == UNION {StringsOfLen(n) : n \in 0..MaxLen}

\* GetUTF8Text returns a char* that may be null (written <<-1>>, which is no
\* string of bytes).
NullText == <<-1>>
RawTexts == Strings \cup {NullText}

\* std::string text = raw_text ? raw_text : "";
TextOfRaw(raw) == IF raw = NullText THEN <<>> ELSE raw

\* the remove_if predicate of the character filter
Stripped(c) == c > 127 \/ (c < 32 /\ c # 32 /\ c # 10)

\* text.erase(std::remove_if(..., pred), text.end())
StripFilter(s) == SelectSeq(s, LAMBDA c : ~Stripped(c))

\* text.erase(std::remove(text.begin(), text.end(), ch), text.end())
RemoveChar(s, ch) == SelectSeq(s, LAMBDA c : c # ch)

\* the characters trimmed at both ends: " \n"
IsTrimChar(c) == c = 32 \/ c = 10

NPos == 0

\* text.find_first_not_of(" \n"), positions counted from 1, NPos when none
FindFirstNotOf(s) ==
    IF \E i \in 1..Len(s) : ~IsTrimChar(s[i])
    THEN CHOOSE i \in 1..Len(s) :
            /\ ~IsTrimChar(s[i])
            /\ \A k \in 1..(i - 1) : IsTrimChar(s[k])
    ELSE NPos

\* text.find_last_not_of(" \n")
FindLastNotOf(s) ==
    IF \E i \in 1..Len(s) : ~IsTrimChar(s[i])
    THEN CHOOSE i \in 1..Len(s) :
            /\ ~IsTrimChar(s[i])
            /\ \A k \in (i + 1)..Len(s) : IsTrimChar(s[k])
    ELSE NPos

Trim_OneEach(s) ==
    LET start_pos == IF s # <<>> /\ IsTrimChar(s[1]) THEN 2 ELSE 1
        end_pos == IF s # <<>> /\ IsTrimChar(s[Len(s)]) THEN Len(s) - 1 ELSE Len(s)
    IN SubSeq(s, start_pos, end_pos)
Trim(s) ==
    LET start_pos == FindFirstNotOf(s)
        end_pos == FindLastNotOf(s)
    IN IF start_pos # NPos /\ end_pos # NPos
       THEN SubSeq(s, start_pos, end_pos)
       ELSE <<>>

\* "Clean up text" up to the trimming: strip CR and tab, trim
TrimmedText(t) == Trim(RemoveChar(RemoveChar(t, 13), 9))

\* "Clean up text", with if (text.empty()) text = "[UNREADABLE]"
CleanUp_NoSentinel(t) == TrimmedText(t)
CleanUp(t) == IF TrimmedText(t) = <<>> THEN UnreadableText ELSE TrimmedText(t)

\* if (text.empty() || text.length() < 2)
NeedsRetry_Always(t) == TRUE
NeedsRetry(t) == t = <<>> \/ Len(t) < 2

-----------------------------------------------------------------------------
(* The requests of the pool model.  The bytes of an image are described by  *)
(* what the image library and the recognition engine return on them.        *)

\* a missing file (also: no bytes), and the NULL Pix*
NoFile == [id |-> 0, decodes |-> FALSE, block |-> <<>>, word |-> <<>>]
NullPix == [id |-> -1, decodes |-> FALSE, block |-> <<>>, word |-> <<>>]

\* The image each call of the pool model submits: a blank one (first pass a
\* lone carriage return, second pass a space), one whose bytes are no image,
\* and then images that read "A".
ImageOf(j) ==
    IF j = 1 THEN [id |-> 1, decodes |-> TRUE, block |-> <<13>>, word |-> <<32>>]
    ELSE IF j = 2 THEN [id |-> 2, decodes |-> FALSE, block |-> <<>>, word |-> <<>>]
    ELSE [id |-> j, decodes |-> TRUE, block |-> <<65, 10>>, word |-> <<65>>]

\* pixRead(temp_filename): NULL when the file is missing or not an image
pixRead(content) ==
    IF content = NoFile THEN NullPix
    ELSE IF content.decodes THEN content ELSE NullPix

\* api.GetUTF8Text() under the current page segmentation mode
GetUTF8Text(pix, mode) == IF mode = "SINGLE_BLOCK" THEN pix.block ELSE pix.word

\* the bytes of the PNG written from final_image and read back
EncodePng(pix) == <<"png", pix.id>>

\* process_image as a function of the temp file's content and of the outcome
\* of api.Init (elapsed time is not modelled)
process_image(content, initOK) ==
    IF ~initOK
    THEN [text |-> ErrInitText, processed_image |-> <<>>]
    ELSE LET image == pixRead(content)
         IN IF image = NullPix
            THEN [text |-> ErrOpenText, processed_image |-> <<>>]
            ELSE LET first == StripFilter(TextOfRaw(GetUTF8Text(image, "SINGLE_BLOCK")))
                     text == IF NeedsRetry(first)
                             THEN StripFilter(TextOfRaw(GetUTF8Text(image, "SINGLE_WORD")))
                             ELSE first
                 IN [text |-> CleanUp(text), processed_image |-> EncodePng(image)]

\* a default-constructed OCRResponse
EmptyResponse ==
    [image_id |-> 0, filename |-> 0, extracted_text |-> <<>>,
     success |-> FALSE, processed_image |-> <<>>]

NoRequest == [image_id |-> 0, filename |-> 0, image_data |-> NoFile]

\* a default-constructed OCRTask (its pointers are not used before assignment)
NoTask == [request |-> NoRequest, response |-> 0, cv |-> 0, mtx |-> 0, completed |-> 0]

\* "Fill response", the first three setters: image_id, filename, extracted_text
FillFirst(resp, req, result) ==
    [resp EXCEPT !.image_id = req.image_id,
                 !.filename = req.filename,
                 !.extracted_text = result.text]

\* "Fill response", all six setters done
FillResponse_SuccessFromText(req, result) ==
    [image_id |-> req.image_id, filename |-> req.filename,
     extracted_text |-> result.text,
     success |-> (result.text \notin {ErrInitText, ErrOpenText, UnreadableText}),
     processed_image |-> result.processed_image]
FillResponse(req, result) ==
    [image_id |-> req.image_id, filename |-> req.filename,
     extracted_text |-> result.text,
     success |-> TRUE,
     processed_image |-> result.processed_image]

\* OCRTask task{*request, &response, &cv, &mtx, &completed}
MakeTask_SharedSlot(j, req) ==
    [request |-> req, response |-> 1, cv |-> j, mtx |-> j, completed |-> j]
MakeTask(j, req) ==
    [request |-> req, response |-> j, cv |-> j, mtx |-> j, completed |-> j]

\* std::queue: push at the back, front()/pop() at the front
QueuePush_Front(q, t) == <<t>> \o q
QueuePush(q, t) == Append(q, t)
QueueFront_Back(q) == q[Len(q)]
QueueFront(q) == Head(q)
QueuePop_Keep(q) == q
QueuePop(q) == Tail(q)

-----------------------------------------------------------------------------
VARIABLES
    num_threads,    \* the pool size given to ThreadPool's constructor
    tessdata,       \* environment: whether api.Init finds its language data
    tasks,          \* ThreadPool::tasks
    queue_mutex,    \* owner of ThreadPool::queue_mutex, or Free
    stop,           \* ThreadPool::stop
    wpc,            \* where each worker thread is in ThreadPool::worker
    task,           \* each worker's local OCRTask
    cpc,            \* where each ProcessImage call is
    request,        \* the ImageRequest of each call
    response,       \* each call's OCRResponse
    completed,      \* each call's completed flag
    sent,           \* the responses written to each call's ServerWriter
    status,         \* the grpc::Status each call returned
    dpc,            \* where ~ThreadPool is
    joined,         \* number of workers the destructor has joined
    enqLog,         \* history: calls in the order their task was pushed
    deqLog,         \* history: calls in the order their task was popped
    queuedAtStop,   \* history: the calls whose task was queued when stop was set
    pushedAtStop    \* history: the number of tasks pushed before stop was set

poolVars == <<num_threads, tessdata, tasks, queue_mutex, stop, wpc, task, cpc,
              request, response, completed, sent, status, dpc, joined,
              enqLog, deqLog, queuedAtStop, pushedAtStop>>

\* queue_mutex is 0 when unlocked, else the number of the worker holding it
Free == 0
WorkerThread(w) == w

\* the threads the constructor started
Started == 1..num_threads

\* The calls made to the server: calls 1..MaxJobs to a pool of one worker, one
\* call fewer to a larger pool.
CallLimit(n) == IF n = 1 THEN MaxJobs ELSE MaxJobs - 1

PoolInit ==
    /\ num_threads \in 1..NumWorkers
    /\ tessdata \in BOOLEAN
    /\ tasks = <<>>
    /\ queue_mutex = Free
    /\ stop = FALSE
    /\ wpc = [w \in Workers |-> IF w <= num_threads THEN "start" ELSE "unused"]
    /\ task = [w \in Workers |-> NoTask]
    /\ cpc = [j \in Jobs |-> "idle"]
    /\ request = [j \in Jobs |-> NoRequest]
    /\ response = [j \in Jobs |-> EmptyResponse]
    /\ completed = [j \in Jobs |-> FALSE]
    /\ sent = [j \in Jobs |-> <<>>]
    /\ status = [j \in Jobs |-> "none"]
    /\ dpc = "alive"
    /\ joined = 0
    /\ enqLog = <<>>
    /\ deqLog = <<>>
    /\ queuedAtStop = {}
    /\ pushedAtStop = 0

\* the workers blocked in condition.wait
CondWaiters(pcs) == {w \in Workers : pcs[w] = "waiting"}

\* condition.notify_one(): wakes one waiting worker, if any; a woken worker
\* has to take queue_mutex again before it re-evaluates its predicate.
\* The result is the set of possible outcomes.
NotifyOne(pcs) ==
    IF CondWaiters(pcs) = {}
    THEN {pcs}
    ELSE {[pcs EXCEPT ![x] = "start"] : x \in CondWaiters(pcs)}

\* condition.notify_all()
NotifyAll(pcs) ==
    [w \in Workers |-> IF w \in CondWaiters(pcs) THEN "start" ELSE pcs[w]]

\* the predicate of condition.wait in worker()
WaitPredicate_Always(s, q) == TRUE
WaitPredicate(s, q) == s \/ q # <<>>

\* if (stop && tasks.empty()) return;
ExitCondition_StopOnly(s, q) == s
ExitCondition(s, q) == s /\ q = <<>>

-----------------------------------------------------------------------------
(* State of one run of process_image, stepped through in ImageSpec          *)
VARIABLES
    image_data,     \* the bytes process_image is called on
    ipc,            \* where process_image is
    api,            \* the TessBaseAPI: "new", "ready" after Init, "ended"
    psm,            \* the engine's page segmentation mode
    live,           \* the Pix handles created and not yet destroyed
    created,        \* history: the Pix handles in the order they were created
    scaled,         \* the handle the local `scaled` points to
    dims,           \* width and height of the image `scaled` points to
    binary,         \* the handle the local `binary` points to
    final_image,    \* the handle the local `final_image` points to
    processed_data, \* the bytes read back from the processed PNG
    text,           \* the local std::string text
    passes,         \* history: mode and filtered text of each GetUTF8Text call
    result          \* the OCRResult returned

imgVars == <<image_data, ipc, api, psm, live, created, scaled, dims, binary,
             final_image, processed_data, text, passes, result>>

vars == <<poolVars, imgVars>>

NoResult == [text |-> <<>>, processed_image |-> <<>>]
NoPix == "NULL"
NoDims == <<0, 0>>

\* image bytes, described by what pixRead makes of them: whether they decode,
\* and the width and height of the decoded image
NoBytes == [decodes |-> FALSE, w |-> 0, h |-> 0]

ImageSizes ==
    {<<1, 1>>, <<3, 7>>, <<499, 250>>, <<500, 249>>, <<499, 100>>,
     <<500, 250>>, <<1000, 100>>, <<640, 480>>}

ImageInputs ==
    {NoBytes} \cup {[decodes |-> TRUE, w |-> s[1], h |-> s[2]] : s \in ImageSizes}

\* the state of process_image before its first statement, called on one of
\* the given inputs; with ipc "idle" nothing runs
ImageVarsAt(pc, inputs) ==
    /\ image_data \in inputs
    /\ ipc = pc
    /\ api = "new"
    /\ psm = "none"
    /\ live = {}
    /\ created = <<>>
    /\ scaled = NoPix
    /\ dims = NoDims
    /\ binary = NoPix
    /\ final_image = NoPix
    /\ processed_data = <<>>
    /\ text = <<>>
    /\ passes = <<>>
    /\ result = NoResult

ImageIdle == ImageVarsAt("idle", {NoBytes})

-----------------------------------------------------------------------------
(* OCRServiceImpl::ProcessImage, one call per job                           *)

\* The call arrives; response, mtx, cv and completed = false are constructed,
\* the task is built and enqueue pushes it with queue_mutex held.
Enqueue(j) ==
    /\ cpc[j] = "idle"
    /\ j <= CallLimit(num_threads)
    /\ dpc # "done"
    /\ queue_mutex = Free
    /\ LET req == [image_id |-> j, filename |-> MaxJobs + j, image_data |-> ImageOf(j)]
       IN /\ request' = [request EXCEPT ![j] = req]
          /\ tasks' = QueuePush(tasks, MakeTask(j, req))
    /\ enqLog' = Append(enqLog, j)
    /\ cpc' = [cpc EXCEPT ![j] = "notify"]
    /\ UNCHANGED <<num_threads, tessdata, queue_mutex, stop, wpc, task, response,
                   completed, sent, status, dpc, joined, deqLog, queuedAtStop, pushedAtStop>>
    /\ UNCHANGED imgVars

\* enqueue: condition.notify_one(), after the lock is released
EnqueueNotify(j) ==
    /\ cpc[j] = "notify"
    /\ wpc' \in NotifyOne(wpc)
    /\ cpc' = [cpc EXCEPT ![j] = "await"]
    /\ UNCHANGED <<num_threads, tessdata, tasks, queue_mutex, stop, task, request,
                   response, completed, sent, status, dpc, joined, enqLog, deqLog,
                   queuedAtStop, pushedAtStop>>
    /\ UNCHANGED imgVars

\* the predicate of cv.wait in ProcessImage
WaitDone_Always(flag) == TRUE
WaitDone(flag) == flag

\* cv.wait(lock, pred) with mtx held.  Predicate false: mtx is released and
\* the call blocks on cv.  Predicate true: the wait is left, the response is
\* written to the writer and the call returns Status::OK, which destroys
\* response, mtx, cv and completed.
AwaitCompletion(j) ==
    /\ cpc[j] = "await"
    /\ IF WaitDone(completed[j])
       THEN /\ sent' = [sent EXCEPT ![j] = Append(@, response[j])]
            /\ status' = [status EXCEPT ![j] = "OK"]
            /\ cpc' = [cpc EXCEPT ![j] = "returned"]
       ELSE /\ cpc' = [cpc EXCEPT ![j] = "blocked"]
            /\ UNCHANGED <<sent, status>>
    /\ UNCHANGED <<num_threads, tessdata, tasks, queue_mutex, stop, wpc, task, request,
                   response, completed, dpc, joined, enqLog, deqLog, queuedAtStop, pushedAtStop>>
    /\ UNCHANGED imgVars

\* a wake-up of cv.wait without a notification, which the wait allows
CallerSpuriousWake(j) ==
    /\ cpc[j] = "blocked"
    /\ cpc' = [cpc EXCEPT ![j] = "await"]
    /\ UNCHANGED <<num_threads, tessdata, tasks, queue_mutex, stop, wpc, task, request,
                   response, completed, sent, status, dpc, joined, enqLog, deqLog,
                   queuedAtStop, pushedAtStop>>
    /\ UNCHANGED imgVars

-----------------------------------------------------------------------------
(* ThreadPool::worker                                                       *)

\* std::unique_lock<std::mutex> lock(queue_mutex), also when a wait wakes up
WorkerLock(w) ==
    /\ wpc[w] = "start"
    /\ queue_mutex = Free
    /\ queue_mutex' = WorkerThread(w)
    /\ wpc' = [wpc EXCEPT ![w] = "locked"]
    /\ UNCHANGED <<num_threads, tessdata, tasks, stop, task, cpc, request, response,
                   completed, sent, status, dpc, joined, enqLog, deqLog, queuedAtStop, pushedAtStop>>
    /\ UNCHANGED imgVars

\* condition.wait: the predicate is false, so queue_mutex is released and the
\* worker blocks
WorkerWait(w) ==
    /\ wpc[w] = "locked"
    /\ ~WaitPredicate(stop, tasks)
    /\ queue_mutex' = Free
    /\ wpc' = [wpc EXCEPT ![w] = "waiting"]
    /\ UNCHANGED <<num_threads, tessdata, tasks, stop, task, cpc, request, response,
                   completed, sent, status, dpc, joined, enqLog, deqLog, queuedAtStop, pushedAtStop>>
    /\ UNCHANGED imgVars

\* a wake-up of condition.wait without a notification
WorkerSpuriousWake(w) ==
    /\ wpc[w] = "waiting"
    /\ wpc' = [wpc EXCEPT ![w] = "start"]
    /\ UNCHANGED <<num_threads, tessdata, tasks, queue_mutex, stop, task, cpc, request,
                   response, completed, sent, status, dpc, joined, enqLog, deqLog,
                   queuedAtStop, pushedAtStop>>
    /\ UNCHANGED imgVars

\* if (stop && tasks.empty()) return;
WorkerExit(w) ==
    /\ wpc[w] = "locked"
    /\ WaitPredicate(stop, tasks)
    /\ ExitCondition(stop, tasks)
    /\ queue_mutex' = Free
    /\ wpc' = [wpc EXCEPT ![w] = "exited"]
    /\ UNCHANGED <<num_threads, tessdata, tasks, stop, task, cpc, request, response,
                   completed, sent, status, dpc, joined, enqLog, deqLog, queuedAtStop, pushedAtStop>>
    /\ UNCHANGED imgVars

\* task = std::move(tasks.front()); tasks.pop(); the lock is released.
\* front() and pop() on an empty queue are undefined; the model stops the
\* thread there (pc "badpop").
WorkerDequeue_KeepsLock(w) ==
    /\ wpc[w] = "locked"
    /\ WaitPredicate(stop, tasks)
    /\ ~ExitCondition(stop, tasks)
    /\ queue_mutex' = queue_mutex
    /\ IF tasks = <<>>
       THEN /\ wpc' = [wpc EXCEPT ![w] = "badpop"]
            /\ UNCHANGED <<tasks, task, deqLog>>
       ELSE /\ task' = [task EXCEPT ![w] = QueueFront(tasks)]
            /\ tasks' = QueuePop(tasks)
            /\ deqLog' = Append(deqLog, QueueFront(tasks).completed)
            /\ wpc' = [wpc EXCEPT ![w] = "run"]
    /\ UNCHANGED <<num_threads, tessdata, stop, cpc, request, response, completed,
                   sent, status, dpc, joined, enqLog, queuedAtStop, pushedAtStop>>
    /\ UNCHANGED imgVars
WorkerDequeue(w) ==
    /\ wpc[w] = "locked"
    /\ WaitPredicate(stop, tasks)
    /\ ~ExitCondition(stop, tasks)
    /\ queue_mutex' = Free
    /\ IF tasks = <<>>
       THEN /\ wpc' = [wpc EXCEPT ![w] = "badpop"]
            /\ UNCHANGED <<tasks, task, deqLog>>
       ELSE /\ task' = [task EXCEPT ![w] = QueueFront(tasks)]
            /\ tasks' = QueuePop(tasks)
            /\ deqLog' = Append(deqLog, QueueFront(tasks).completed)
            /\ wpc' = [wpc EXCEPT ![w] = "run"]
    /\ UNCHANGED <<num_threads, tessdata, stop, cpc, request, response, completed,
                   sent, status, dpc, joined, enqLog, queuedAtStop, pushedAtStop>>
    /\ UNCHANGED imgVars

\* process_image on the task's image bytes (they go through a temp file named
\* after this thread), then the first setters of "Fill response": image_id,
\* filename, extracted_text
WorkerProcess_SetsFlag(w) ==
    /\ wpc[w] = "run"
    /\ response' = [response EXCEPT ![task[w].response] =
           FillFirst(@, task[w].request,
                     process_image(task[w].request.image_data, tessdata))]
    /\ completed' = [completed EXCEPT ![task[w].completed] = TRUE]
    /\ wpc' = [wpc EXCEPT ![w] = "fill"]
    /\ UNCHANGED <<num_threads, tessdata, tasks, queue_mutex, stop, task, cpc, request,
                   sent, status, dpc, joined, enqLog, deqLog, queuedAtStop, pushedAtStop>>
    /\ UNCHANGED imgVars
WorkerProcess(w) ==
    /\ wpc[w] = "run"
    /\ response' = [response EXCEPT ![task[w].response] =
           FillFirst(@, task[w].request,
                     process_image(task[w].request.image_data, tessdata))]
    /\ wpc' = [wpc EXCEPT ![w] = "fill"]
    /\ UNCHANGED <<num_threads, tessdata, tasks, queue_mutex, stop, task, cpc, request,
                   completed, sent, status, dpc, joined, enqLog, deqLog, queuedAtStop, pushedAtStop>>
    /\ UNCHANGED imgVars

\* the other setters of "Fill response" (processing_time_ms, which is not
\* modelled, success, processed_image), from the same OCRResult
WorkerFill(w) ==
    /\ wpc[w] = "fill"
    /\ response' = [response EXCEPT ![task[w].response] =
           FillResponse(task[w].request,
                        process_image(task[w].request.image_data, tessdata))]
    /\ wpc' = [wpc EXCEPT ![w] = "flag"]
    /\ UNCHANGED <<num_threads, tessdata, tasks, queue_mutex, stop, task, cpc, request,
                   completed, sent, status, dpc, joined, enqLog, deqLog, queuedAtStop, pushedAtStop>>
    /\ UNCHANGED imgVars

\* { std::lock_guard<std::mutex> lock(*task.mtx); *task.completed = true; }
WorkerSetCompleted(w) ==
    /\ wpc[w] = "flag"
    /\ completed' = [completed EXCEPT ![task[w].completed] = TRUE]
    /\ wpc' = [wpc EXCEPT ![w] = "signal"]
    /\ UNCHANGED <<num_threads, tessdata, tasks, queue_mutex, stop, task, cpc, request,
                   response, sent, status, dpc, joined, enqLog, deqLog, queuedAtStop, pushedAtStop>>
    /\ UNCHANGED imgVars

\* task.cv->notify_one(), then the next iteration.  When the call has
\* returned, the condition variable is destroyed and the notify is undefined:
\* it returns, or the thread never comes back from it (pc "fault").
WorkerNotify(w) ==
    /\ wpc[w] = "signal"
    /\ LET j == task[w].cv
       IN IF cpc[j] = "returned"
          THEN /\ wpc' \in {[wpc EXCEPT ![w] = "start"], [wpc EXCEPT ![w] = "fault"]}
               /\ cpc' = cpc
          ELSE /\ wpc' = [wpc EXCEPT ![w] = "start"]
               /\ cpc' = [cpc EXCEPT ![j] = IF @ = "blocked" THEN "await" ELSE @]
    /\ task' = [task EXCEPT ![w] = IF wpc'[w] = "start" THEN NoTask ELSE @]
    /\ UNCHANGED <<num_threads, tessdata, tasks, queue_mutex, stop, request, response,
                   completed, sent, status, dpc, joined, enqLog, deqLog, queuedAtStop, pushedAtStop>>
    /\ UNCHANGED imgVars

-----------------------------------------------------------------------------
(* ThreadPool::~ThreadPool                                                  *)

\* { std::unique_lock<std::mutex> lock(queue_mutex); stop = true; }
DtorSetStop ==
    /\ dpc = "alive"
    /\ queue_mutex = Free
    /\ stop' = TRUE
    /\ queuedAtStop' = {tasks[i].completed : i \in 1..Len(tasks)}
    /\ pushedAtStop' = Len(enqLog)
    /\ dpc' = "notify"
    /\ UNCHANGED <<num_threads, tessdata, tasks, queue_mutex, wpc, task, cpc, request,
                   response, completed, sent, status, joined, enqLog, deqLog>>
    /\ UNCHANGED imgVars

\* condition.notify_all()
DtorNotifyAll ==
    /\ dpc = "notify"
    /\ wpc' = NotifyAll(wpc)
    /\ dpc' = "join"
    /\ UNCHANGED <<num_threads, tessdata, tasks, queue_mutex, stop, task, cpc, request,
                   response, completed, sent, status, joined, enqLog, deqLog,
                   queuedAtStop, pushedAtStop>>
    /\ UNCHANGED imgVars

\* for (std::thread& worker : workers) worker.join();
DtorJoin ==
    /\ dpc = "join"
    /\ joined < num_threads
    /\ wpc[joined + 1] = "exited"
    /\ joined' = joined + 1
    /\ dpc' = IF joined + 1 = num_threads THEN "done" ELSE "join"
    /\ UNCHANGED <<num_threads, tessdata, tasks, queue_mutex, stop, wpc, task, cpc,
                   request, response, completed, sent, status, enqLog, deqLog,
                   queuedAtStop, pushedAtStop>>
    /\ UNCHANGED imgVars

-----------------------------------------------------------------------------
Init == PoolInit /\ ImageIdle

Next ==
    \/ \E j \in Jobs : Enqueue(j)
    \/ \E j \in Jobs : EnqueueNotify(j)
    \/ \E j \in Jobs : AwaitCompletion(j)
    \/ \E j \in Jobs : CallerSpuriousWake(j)
    \/ \E w \in Workers : WorkerLock(w)
    \/ \E w \in Workers : WorkerWait(w)
    \/ \E w \in Workers : WorkerSpuriousWake(w)
    \/ \E w \in Workers : WorkerExit(w)
    \/ \E w \in Workers : WorkerDequeue(w)
    \/ \E w \in Workers : WorkerProcess(w)
    \/ \E w \in Workers : WorkerFill(w)
    \/ \E w \in Workers : WorkerSetCompleted(w)
    \/ \E w \in Workers : WorkerNotify(w)
    \/ DtorSetStop
    \/ DtorNotifyAll
    \/ DtorJoin

Spec == Init /\ [][Next]_vars

\* the server while no shutdown is requested
ServeNext ==
    \/ \E j \in Jobs : Enqueue(j)
    \/ \E j \in Jobs : EnqueueNotify(j)
    \/ \E j \in Jobs : AwaitCompletion(j)
    \/ \E j \in Jobs : CallerSpuriousWake(j)
    \/ \E w \in Workers : WorkerLock(w)
    \/ \E w \in Workers : WorkerWait(w)
    \/ \E w \in Workers : WorkerSpuriousWake(w)
    \/ \E w \in Workers : WorkerDequeue(w)
    \/ \E w \in Workers : WorkerProcess(w)
    \/ \E w \in Workers : WorkerFill(w)
    \/ \E w \in Workers : WorkerSetCompleted(w)
    \/ \E w \in Workers : WorkerNotify(w)

ServeSpec == Init /\ [][ServeNext]_vars

\* the steps of a call that do not depend on its arrival
CallerStep(j) == EnqueueNotify(j) \/ AwaitCompletion(j)

\* the steps of a worker other than taking queue_mutex
WorkerStep(w) ==
    \/ WorkerWait(w)
    \/ WorkerExit(w)
    \/ WorkerDequeue(w)
    \/ WorkerProcess(w)
    \/ WorkerFill(w)
    \/ WorkerSetCompleted(w)
    \/ WorkerNotify(w)

\* the steps of the destructor after stop is set
DtorStep == DtorNotifyAll \/ DtorJoin

\* Scheduling: every thread that can take a step eventually takes one, and a
\* thread that keeps trying to take queue_mutex eventually gets it.  The
\* arrival of calls, the moment of shutdown and wake-ups without notification
\* are not forced.
Fairness ==
    /\ \A j \in Jobs : WF_vars(CallerStep(j))
    /\ \A w \in Workers : SF_vars(WorkerLock(w))
    /\ \A w \in Workers : WF_vars(WorkerStep(w))
    /\ WF_vars(DtorStep)

FairSpec == Spec /\ Fairness

FairServeSpec == ServeSpec /\ Fairness

-----------------------------------------------------------------------------
(* Properties of the pool                                                   *)

\* the workers that hold a dequeued task
Holding == {w \in Workers : wpc[w] \in {"run", "fill", "flag", "signal", "fault"}}

\* the calls whose task is in the queue
Queued == {tasks[i].completed : i \in 1..Len(tasks)}

NoDuplicates(s) == \A a, b \in 1..Len(s) : a # b => s[a] # s[b]

IsPrefix(s, t) == Len(s) <= Len(t) /\ \A i \in 1..Len(s) : s[i] = t[i]

\* the text a call of the pool model has to receive
ExpectedText(j) ==
    IF ~tessdata THEN ErrInitText
    ELSE IF j = 1 THEN UnreadableText
    ELSE IF j = 2 THEN ErrOpenText
    ELSE <<65>>

\* the processed image a call of the pool model has to receive
ExpectedImage(j) ==
    IF ~tessdata \/ j = 2 THEN <<>> ELSE <<"png", j>>

\* the calls whose job is pushed and that have not returned
Pending == {j \in Jobs : cpc[j] \in {"notify", "await", "blocked"}}

\* C1: with no shutdown requested (ServeSpec), every job that was pushed on the
\* queue is eventually dequeued and processed and its call returns (each call
\* being made once, from some point on no call is left pending).
C1_EveryJobReturns == <>[] (Pending = {})

\* Lemma (no lost wake-up): the same, for the runs in which no worker is lost
\* in a notify on a destroyed condition variable.
NoLostWakeup ==
    ([] (\A w \in Workers : wpc[w] # "fault")) => <>[] (Pending = {})

\* C2: a job is pushed once and popped once, and no two workers hold the
\* same job.
C2_OneWorkerPerJob ==
    /\ NoDuplicates(enqLog)
    /\ NoDuplicates(deqLog)
    /\ \A w1, w2 \in Holding : w1 # w2 => task[w1].completed # task[w2].completed
    /\ \A w \in Holding : task[w].completed \notin Queued

C2_Witness ==
    /\ Cardinality(Holding) = 2
    /\ Len(deqLog) = 2
    /\ Queued = {}

\* C3: jobs leave the queue in the order they were pushed.
C3_FifoDequeue == IsPrefix(deqLog, enqLog)

C3_Witness ==
    /\ num_threads = 2
    /\ deqLog = <<2, 1>>
    /\ wpc[1] = "run"
    /\ wpc[2] = "run"

\* C4: the response a call sends carries its own request's identifiers and
\* the text and image of its own input bytes, and no two workers hold tasks
\* that point to the same response.
C4_NoCrossAssignment ==
    /\ \A j \in Jobs : \A i \in 1..Len(sent[j]) :
          /\ sent[j][i].image_id = request[j].image_id
          /\ sent[j][i].filename = request[j].filename
          /\ sent[j][i].extracted_text = ExpectedText(j)
          /\ sent[j][i].processed_image = ExpectedImage(j)
    /\ \A w1, w2 \in Holding : w1 # w2 => task[w1].response # task[w2].response

C4_Witness ==
    /\ tessdata
    /\ num_threads = 2
    /\ \A j \in 1..CallLimit(num_threads) : Len(sent[j]) = 1
    /\ deqLog[1] = 2
    /\ sent[1][1].extracted_text # sent[2][1].extracted_text

\* C6: a call writes at most one response, exactly one by the time it
\* returns, it returns OK, and every response says success, whatever its text.
C6_OneSuccessfulResponse ==
    \A j \in Jobs :
        /\ Len(sent[j]) <= 1
        /\ (cpc[j] = "returned") <=> (Len(sent[j]) = 1)
        /\ (cpc[j] = "returned") <=> (status[j] = "OK")
        /\ \A i \in 1..Len(sent[j]) : sent[j][i].success = TRUE

C6_Witness ==
    /\ Len(sent[2]) = 1
    /\ sent[2][1].extracted_text = ErrOpenText
    /\ sent[2][1].success
    /\ status[2] = "OK"
    /\ Len(sent[1]) = 1
    /\ sent[1][1].extracted_text = UnreadableText
    /\ sent[1][1].success

\* C7 as claimed: once stop is set, a job that was queued at that moment
\* stays in the queue and gets no result.
C7_QueuedJobsDropped ==
    \A j \in queuedAtStop : j \in Queued /\ ~completed[j]

\* C7 as amended: the queue is drained; when a worker has left its loop,
\* every job that was queued when stop was set has been dequeued.
C7_QueuedJobsDrained ==
    \A w \in Workers : wpc[w] = "exited" =>
        \A j \in queuedAtStop : j \notin Queued /\ \E i \in 1..Len(deqLog) : deqLog[i] = j

C7_Witness ==
    /\ Cardinality(queuedAtStop) = 2
    /\ \E w \in Workers : wpc[w] = "exited"
    /\ \A j \in queuedAtStop : cpc[j] = "returned"

\* the state in which shutdown is over
ShutdownDone ==
    /\ dpc = "done"
    /\ \A w \in Started : wpc[w] = "exited"
    /\ \A i \in 1..Len(deqLog) : completed[deqLog[i]]

\* a job was submitted after stop was set
LateSubmission == stop /\ Len(enqLog) > pushedAtStop

\* C8: once stop is set and no job is submitted after that, every worker
\* leaves its loop, having completed the jobs that were dequeued, and the
\* destructor's join returns.
C8_ShutdownTerminates == stop ~> (ShutdownDone \/ LateSubmission)

\* Lemma: the same, for the runs in which no worker is lost in a notify on a
\* destroyed condition variable.
ShutdownTerminatesUnlessFault ==
    ([] (\A w \in Workers : wpc[w] # "fault")) => (stop ~> ShutdownDone)

\* the response a call has to find once its job is done, all fields written
FullResponse(j) ==
    [image_id |-> request[j].image_id, filename |-> request[j].filename,
     extracted_text |-> ExpectedText(j), success |-> TRUE,
     processed_image |-> ExpectedImage(j)]

\* the calls whose job was taken from the queue
Dequeued == {deqLog[i] : i \in 1..Len(deqLog)}

\* the workers that hold a job whose completed flag they have not yet set
Working == {w \in Workers : wpc[w] \in {"run", "fill", "flag"}}

\* C18: in a pool of one worker the jobs are taken in the order they were
\* pushed, and when the worker takes or works on a job, every job pushed
\* before it is fully answered, flagged completed and notified: the jobs
\* completed are always the first ones of the push order, with at most the
\* last dequeued one still in work or about to be notified.
C18_SingleWorkerInOrder ==
    num_threads = 1 =>
        LET n == Len(deqLog)
            k == IF Working # {} THEN n - 1 ELSE n
        IN /\ IsPrefix(deqLog, enqLog)
           /\ {j \in Jobs : completed[j]} = {enqLog[i] : i \in 1..k}
           /\ \A i \in 1..k : response[enqLog[i]] = FullResponse(enqLog[i])
           /\ \A w \in Holding : n >= 1 /\ task[w].completed = deqLog[n]
           /\ \A i \in (n + 1)..Len(enqLog) : response[enqLog[i]] = EmptyResponse

C18_Witness ==
    /\ num_threads = 1
    /\ enqLog = <<2, 3, 1>>
    /\ deqLog = <<2, 3, 1>>
    /\ completed[2] /\ completed[3] /\ ~completed[1]
    /\ cpc[2] = "returned"
    /\ wpc[1] = "run"

\* C19: a call has returned only if its own job's flag is set, which only
\* the worker holding that job does, after it has processed it; the call
\* then sends that job's response.  Another job's completion sets no flag
\* but its own.
C19_ReleasedByOwnCompletion ==
    /\ [] (\A j \in Jobs :
             /\ cpc[j] = "returned" => (completed[j] /\ sent[j] = <<FullResponse(j)>>)
             /\ completed[j] =>
                   /\ j \in Dequeued
                   /\ \A w \in Working : task[w].completed # j
                   /\ response[j] = FullResponse(j))
    /\ [][\A j \in Jobs :
             /\ (~completed[j] /\ completed'[j]) =>
                   \E w \in Workers : /\ wpc[w] = "flag"
                                      /\ wpc'[w] = "signal"
                                      /\ task[w].completed = j
             /\ (cpc[j] # "returned" /\ cpc'[j] = "returned") => completed[j]]_vars

C19_Witness ==
    /\ cpc[1] = "returned"
    /\ cpc[2] = "blocked"
    /\ ~completed[2]
    /\ \E w \in Workers : wpc[w] = "start" /\ task[w] = NoTask
    /\ \E w \in Workers : wpc[w] = "flag" /\ task[w].completed = 2

\* a response of which some but not all fields are written
PartlyWritten(j) == response[j] # EmptyResponse /\ response[j] # FullResponse(j)

\* C20: the flag of a job is set only with all fields of its response
\* written, it is set once, by a worker that found it false, and never
\* cleared; the response is not written after that, and what a call sends is
\* the response read with the flag set, never a partly written one.
C20_WrittenBeforeFlag ==
    /\ [] (\A j \in Jobs :
             /\ completed[j] => response[j] = FullResponse(j)
             /\ \A i \in 1..Len(sent[j]) : completed[j] /\ sent[j][i] = FullResponse(j)
             /\ PartlyWritten(j) => (~completed[j] /\ sent[j] = <<>>))
    /\ [] (\A w \in Working : ~completed[task[w].completed])
    /\ [][\A j \in Jobs :
             /\ completed[j] => completed'[j]
             /\ completed[j] => response'[j] = response[j]
             /\ sent'[j] # sent[j] => (completed[j] /\ sent'[j] = <<response[j]>>)]_vars

C20_Witness ==
    /\ cpc[1] = "returned"
    /\ sent[1] = <<FullResponse(1)>>
    /\ cpc[2] = "await"
    /\ PartlyWritten(2)
    /\ \E w \in Workers : wpc[w] = "fill" /\ task[w].response = 2

\* C21: a worker that holds a dequeued task (in process_image, filling the
\* response, setting the flag or notifying) does not hold queue_mutex; the
\* mutex is held by a worker only between its lock and its wait, exit or
\* dequeue, so another worker can hold it while one is processing.
C21_NoLockWhileProcessing ==
    /\ \A w \in Holding : queue_mutex # WorkerThread(w)
    /\ \A w \in Workers : (queue_mutex = WorkerThread(w)) <=> (wpc[w] = "locked")

C21_Witness ==
    /\ wpc[1] = "fill"
    /\ wpc[2] = "locked"
    /\ queue_mutex = WorkerThread(2)
    /\ tasks # <<>>
    /\ cpc[3 - task[1].completed] = "notify"

\* C22: when a worker calls notify_one on a job's condition variable (its
\* last access to the objects of the call's stack frame), the call has not
\* yet returned.
C22_NotifyBeforeReturn ==
    [][\A w \in Workers :
          (wpc[w] = "signal" /\ wpc'[w] # "signal") => cpc[task[w].cv] # "returned"]_vars

\* what the code guarantees: the accesses before the notify (the response
\* setters and the flag, written under the job's mutex) come before the
\* call returns
WritesBeforeReturn ==
    \A w \in Working : cpc[task[w].completed] # "returned"

\* C23: front() and pop() are never applied to an empty queue: every pop
\* took a task that was pushed, and a worker has left its loop only with
\* stop set.
C23_PopOnlyNonEmpty ==
    /\ \A w \in Workers : wpc[w] # "badpop"
    /\ Len(deqLog) + Len(tasks) = Len(enqLog)
    /\ \A w \in Holding : task[w] # NoTask /\ task[w].completed \in Dequeued
    /\ \A w \in Workers : wpc[w] = "exited" => (stop /\ task[w] = NoTask)

C23_Witness ==
    /\ stop
    /\ num_threads = 2
    /\ wpc[1] = "exited"
    /\ wpc[2] = "run"
    /\ task[2].completed \in queuedAtStop
    /\ tasks = <<>>

-----------------------------------------------------------------------------
(* ThreadPool::process_image, one run, on any image and any engine output.  *)
(* The image bytes go to the temp file, which pixRead reads back; elapsed   *)
(* time is not modelled.                                                     *)

\* the mode the engine is put in before the first pass, and for the retry
FirstMode == "SINGLE_BLOCK"
RetryMode == "SINGLE_WORD"

\* the smallest width and height that are not scaled up
MinWidth == 500
MinHeight == 250

\* if (w < 500 || h < 250)
NeedsUpscale(w, h) == w < MinWidth \/ h < MinHeight

\* float scale = std::max(500.0f / w, 250.0f / h), as the fraction
\* <<numerator, denominator>>; std::max(a, b) is b when a < b, else a
ScaleFactor_Min(w, h) ==
    IF MinWidth * h < MinHeight * w THEN <<MinWidth, w>> ELSE <<MinHeight, h>>
ScaleFactor(w, h) ==
    IF MinWidth * h < MinHeight * w THEN <<MinHeight, h>> ELSE <<MinWidth, w>>

\* pixScale(gray, scale, scale): a side of the result is the side times the
\* factor, rounded to the nearest integer
ScaledSide(f, side) == (2 * f[1] * side + f[2]) \div (2 * f[2])
pixScaleDims(f, w, h) == <<ScaledSide(f, w), ScaledSide(f, h)>>

\* pixDestroy(&p) on the set of live handles
pixDestroy(handles, p) == handles \ {p}

\* Pix* final_image = binary ? binary : scaled;
FinalImage_ScaledOnly(b, s) == s
FinalImage(b, s) == IF b # NoPix THEN b ELSE s

\* api.Init fails: return the error text and no image
PI_InitFails_FallsThrough ==
    /\ ipc = "init"
    /\ psm' = FirstMode
    /\ ipc' = "decode"
    /\ UNCHANGED <<image_data, api, live, created, scaled, dims, binary, final_image,
                   processed_data, text, passes, result>>
    /\ UNCHANGED poolVars
PI_InitFails ==
    /\ ipc = "init"
    /\ result' = [text |-> ErrInitText, processed_image |-> <<>>]
    /\ ipc' = "done"
    /\ UNCHANGED <<image_data, api, psm, live, created, scaled, dims, binary,
                   final_image, processed_data, text, passes>>
    /\ UNCHANGED poolVars

\* api.Init succeeds; api.SetPageSegMode(PSM_SINGLE_BLOCK)
PI_Init ==
    /\ ipc = "init"
    /\ api' = "ready"
    /\ psm' = FirstMode
    /\ ipc' = "decode"
    /\ UNCHANGED <<image_data, live, created, scaled, dims, binary, final_image,
                   processed_data, text, passes, result>>
    /\ UNCHANGED poolVars

\* pixRead returns NULL: api.End(), return the error text and no image
PI_DecodeFails ==
    /\ ipc = "decode"
    /\ ~image_data.decodes
    /\ api' = "ended"
    /\ result' = [text |-> ErrOpenText, processed_image |-> <<>>]
    /\ ipc' = "done"
    /\ UNCHANGED <<image_data, psm, live, created, scaled, dims, binary, final_image,
                   processed_data, text, passes>>
    /\ UNCHANGED poolVars

\* pixRead returns an image; gray = pixConvertTo8(image); pixDestroy(&image);
\* scaled = gray, replaced by pixScale(gray, scale, scale) when the image is
\* small, and then pixDestroy(&gray)
PI_Decode ==
    /\ ipc = "decode"
    /\ image_data.decodes
    /\ LET w == image_data.w
           h == image_data.h
           afterGray == pixDestroy({"image", "gray"}, "image")
       IN IF NeedsUpscale(w, h)
          THEN /\ live' = pixDestroy(afterGray \cup {"scaled"}, "gray")
               /\ created' = <<"image", "gray", "scaled">>
               /\ scaled' = "scaled"
               /\ dims' = pixScaleDims(ScaleFactor(w, h), w, h)
          ELSE /\ live' = afterGray
               /\ created' = <<"image", "gray">>
               /\ scaled' = "gray"
               /\ dims' = <<w, h>>
    /\ ipc' = "sharpen"
    /\ UNCHANGED <<image_data, api, psm, binary, final_image, processed_data, text,
                   passes, result>>
    /\ UNCHANGED poolVars

\* sharpened = pixUnsharpMaskingGray(scaled, 5, 2.5); when it is not NULL,
\* pixDestroy(&scaled) and scaled = sharpened
PI_Sharpen ==
    /\ ipc = "sharpen"
    /\ \E ok \in BOOLEAN :
          IF ok
          THEN /\ live' = pixDestroy(live \cup {"sharpened"}, scaled)
               /\ created' = Append(created, "sharpened")
               /\ scaled' = "sharpened"
          ELSE UNCHANGED <<live, created, scaled>>
    /\ ipc' = "contrast"
    /\ UNCHANGED <<image_data, api, psm, dims, binary, final_image, processed_data,
                   text, passes, result>>
    /\ UNCHANGED poolVars

\* contrast = pixContrastNorm(NULL, scaled, ...); when it is not NULL,
\* pixDestroy(&scaled) and scaled = contrast
PI_Contrast_KeepsOld ==
    /\ ipc = "contrast"
    /\ \E ok \in BOOLEAN :
          IF ok
          THEN /\ live' = live \cup {"contrast"}
               /\ created' = Append(created, "contrast")
               /\ scaled' = "contrast"
          ELSE UNCHANGED <<live, created, scaled>>
    /\ ipc' = "binarize"
    /\ UNCHANGED <<image_data, api, psm, dims, binary, final_image, processed_data,
                   text, passes, result>>
    /\ UNCHANGED poolVars
PI_Contrast ==
    /\ ipc = "contrast"
    /\ \E ok \in BOOLEAN :
          IF ok
          THEN /\ live' = pixDestroy(live \cup {"contrast"}, scaled)
               /\ created' = Append(created, "contrast")
               /\ scaled' = "contrast"
          ELSE UNCHANGED <<live, created, scaled>>
    /\ ipc' = "binarize"
    /\ UNCHANGED <<image_data, api, psm, dims, binary, final_image, processed_data,
                   text, passes, result>>
    /\ UNCHANGED poolVars

\* binary = pixOtsuThreshOnBackgroundNorm(scaled, ...);
\* final_image = binary ? binary : scaled; the image is written as PNG and
\* read back into processed_data
PI_Binarize ==
    /\ ipc = "binarize"
    /\ \E ok \in BOOLEAN :
          IF ok
          THEN /\ live' = live \cup {"binary"}
               /\ created' = Append(created, "binary")
               /\ binary' = "binary"
          ELSE UNCHANGED <<live, created, binary>>
    /\ final_image' = FinalImage(binary', scaled)
    /\ processed_data' = <<"png", final_image'>>
    /\ ipc' = "recognize"
    /\ UNCHANGED <<image_data, api, psm, scaled, dims, text, passes, result>>
    /\ UNCHANGED poolVars

\* api.SetImage(final_image); raw_text = api.GetUTF8Text(); text is the raw
\* text (empty when null) with the character filter applied
PI_Recognize ==
    /\ ipc = "recognize"
    /\ \E raw \in RawTexts :
          /\ text' = StripFilter(TextOfRaw(raw))
          /\ passes' = Append(passes, [mode |-> psm, image |-> final_image,
                                       filtered |-> StripFilter(TextOfRaw(raw))])
    /\ ipc' = "check"
    /\ UNCHANGED <<image_data, api, psm, live, created, scaled, dims, binary,
                   final_image, processed_data, result>>
    /\ UNCHANGED poolVars

\* if (text.empty() || text.length() < 2): SetPageSegMode(PSM_SINGLE_WORD),
\* SetImage(final_image), GetUTF8Text and the character filter once more
PI_Retry ==
    /\ ipc = "check"
    /\ NeedsRetry(text)
    /\ psm' = RetryMode
    /\ \E raw \in RawTexts :
          /\ text' = StripFilter(TextOfRaw(raw))
          /\ passes' = Append(passes, [mode |-> RetryMode, image |-> final_image,
                                       filtered |-> StripFilter(TextOfRaw(raw))])
    /\ ipc' = "finish"
    /\ UNCHANGED <<image_data, api, live, created, scaled, dims, binary, final_image,
                   processed_data, result>>
    /\ UNCHANGED poolVars

\* the if is not taken
PI_NoRetry ==
    /\ ipc = "check"
    /\ ~NeedsRetry(text)
    /\ ipc' = "finish"
    /\ UNCHANGED <<image_data, api, psm, live, created, scaled, dims, binary,
                   final_image, processed_data, text, passes, result>>
    /\ UNCHANGED poolVars

\* if (binary) pixDestroy(&binary); pixDestroy(&scaled); api.End();
\* "Clean up text"; return {text, elapsed, processed_data}
PI_Finish ==
    /\ ipc = "finish"
    /\ live' = pixDestroy(IF binary # NoPix THEN pixDestroy(live, binary) ELSE live,
                          scaled)
    /\ binary' = NoPix
    /\ scaled' = NoPix
    /\ api' = "ended"
    /\ text' = CleanUp(text)
    /\ result' = [text |-> CleanUp(text), processed_image |-> processed_data]
    /\ ipc' = "done"
    /\ UNCHANGED <<image_data, psm, created, dims, final_image, processed_data,
                   passes>>
    /\ UNCHANGED poolVars

\* no ProcessImage call, no worker: process_image alone
PoolUnused ==
    /\ num_threads = 1
    /\ tessdata = TRUE
    /\ tasks = <<>>
    /\ queue_mutex = Free
    /\ stop = FALSE
    /\ wpc = [w \in Workers |-> "unused"]
    /\ task = [w \in Workers |-> NoTask]
    /\ cpc = [j \in Jobs |-> "idle"]
    /\ request = [j \in Jobs |-> NoRequest]
    /\ response = [j \in Jobs |-> EmptyResponse]
    /\ completed = [j \in Jobs |-> FALSE]
    /\ sent = [j \in Jobs |-> <<>>]
    /\ status = [j \in Jobs |-> "none"]
    /\ dpc = "unused"
    /\ joined = 0
    /\ enqLog = <<>>
    /\ deqLog = <<>>
    /\ queuedAtStop = {}
    /\ pushedAtStop = 0

ImageInit == PoolUnused /\ ImageVarsAt("init", ImageInputs)

ImageNext ==
    \/ PI_InitFails
    \/ PI_Init
    \/ PI_DecodeFails
    \/ PI_Decode
    \/ PI_Sharpen
    \/ PI_Contrast
    \/ PI_Binarize
    \/ PI_Recognize
    \/ PI_Retry
    \/ PI_NoRetry
    \/ PI_Finish

ImageSpec == ImageInit /\ [][ImageNext]_vars

-----------------------------------------------------------------------------
(* Properties of process_image                                              *)

\* no byte the character filter strips, and no space or newline at either end
IsSanitized(t) ==
    /\ \A i \in 1..Len(t) : ~Stripped(t[i]) /\ t[i] # 13 /\ t[i] # 9
    /\ t # <<>> => ~IsTrimChar(t[1]) /\ ~IsTrimChar(t[Len(t)])

\* C5: the text process_image returns is never empty: it is an "[ERROR: ...]"
\* text, "[UNREADABLE]", or sanitized engine output of length 1 or more.
C5_TextNeverEmpty ==
    ipc = "done" =>
        /\ result.text # <<>>
        /\ \/ result.text \in {ErrInitText, ErrOpenText, UnreadableText}
           \/ /\ Len(result.text) >= 1
              /\ IsSanitized(result.text)
              /\ result.text = TrimmedText(passes[Len(passes)].filtered)

C5_Witness ==
    /\ ipc = "done"
    /\ Len(passes) = 2
    /\ passes[1].filtered = <<>>
    /\ passes[2].filtered = <<32, 10>>
    /\ result.text = UnreadableText

\* C9 as claimed: when the first pass's text, filtered, stripped of CR and tab
\* and trimmed, is shorter than 2, there is exactly one more pass, in
\* SINGLE_WORD mode, and the text returned is the clean-up of that pass.
C9_RetryOnShortSanitized ==
    (ipc = "done" /\ passes # <<>> /\ Len(TrimmedText(passes[1].filtered)) < 2) =>
        /\ Len(passes) = 2
        /\ passes[2].mode = "SINGLE_WORD"
        /\ result.text = CleanUp(passes[2].filtered)

\* what the code does: the retry is decided on the filtered text before it is
\* trimmed
RetryOnShortFiltered ==
    (ipc = "done" /\ passes # <<>>) =>
        IF Len(passes[1].filtered) < 2
        THEN /\ Len(passes) = 2
             /\ passes[2].mode = "SINGLE_WORD"
             /\ result.text = CleanUp(passes[2].filtered)
        ELSE /\ Len(passes) = 1
             /\ result.text = CleanUp(passes[1].filtered)

\* C10: at most two passes; the first in SINGLE_BLOCK mode; a second one only
\* in SINGLE_WORD mode and only after a first pass whose text was shorter
\* than 2; after the second pass the run goes on to its end.
C10_AtMostOneRetry ==
    /\ Len(passes) <= 2
    /\ Len(passes) >= 1 => passes[1].mode = "SINGLE_BLOCK"
    /\ Len(passes) = 2 =>
          /\ passes[2].mode = "SINGLE_WORD"
          /\ Len(passes[1].filtered) < 2
          /\ Len(TrimmedText(passes[1].filtered)) < 2
          /\ ipc \in {"finish", "done"}

C10_Witness ==
    /\ ipc = "done"
    /\ Len(passes) = 2
    /\ Len(passes[2].filtered) < 2

\* the text starts with "[ERROR: "
HasErrorPrefix(t) ==
    Len(t) >= 8 /\ SubSeq(t, 1, 8) = <<91, 69, 82, 82, 79, 82, 58, 32>>

\* C11: when the input bytes do not decode to a bitmap, the text returned is
\* exactly "[ERROR: Unable to open image]", whatever api.Init did.
C11_UndecodableGivesOpenError ==
    (ipc = "done" /\ ~image_data.decodes) => result.text = ErrOpenText

\* what the code does: that text is returned only when api.Init succeeded,
\* since Init is tried before the bytes are read
UndecodableAfterInit ==
    (ipc = "done" /\ ~image_data.decodes) =>
        /\ passes = <<>>
        /\ created = <<>>
        /\ result.processed_image = <<>>
        /\ result.text = IF api = "new" THEN ErrInitText ELSE ErrOpenText

\* C12: when api.Init fails no recognition pass is made in either mode and no
\* image is read, and process_image still returns a result: a text that
\* starts with "[ERROR: " and no processed image.
C12_InitFailureShortCircuits ==
    /\ api = "new" => (passes = <<>> /\ created = <<>>)
    /\ (ipc = "done" /\ api = "new") =>
          /\ HasErrorPrefix(result.text)
          /\ result = [text |-> ErrInitText, processed_image |-> <<>>]

C12_Witness ==
    /\ ipc = "done"
    /\ api = "new"
    /\ image_data.decodes
    /\ result.text = ErrInitText

\* a control character of ASCII: below 32, or DEL
IsControl(c) == c < 32 \/ c = 127

\* C13: the text made from a recognition output has no byte above 127, no
\* control character other than newline, and no space or newline at either
\* end.
C13_NoControlBytes ==
    (ipc = "done" /\ passes # <<>>) =>
        /\ \A i \in 1..Len(result.text) :
              /\ result.text[i] <= 127
              /\ IsControl(result.text[i]) => result.text[i] = 10
        /\ ~IsTrimChar(result.text[1])
        /\ ~IsTrimChar(result.text[Len(result.text)])

\* what the code does: the bytes the character filter strips are gone, CR and
\* tab included, and both ends are trimmed; DEL (127) stays
NoStrippedBytes ==
    (ipc = "done" /\ passes # <<>>) =>
        /\ result.text # <<>>
        /\ IsSanitized(result.text)

\* the whole sanitization of one recognition output
Sanitize(s) == CleanUp(StripFilter(s))

\* C14: sanitizing a sanitized text changes nothing, also when that text is
\* "[UNREADABLE]".
C14_SanitizeIdempotent ==
    (ipc = "done" /\ passes # <<>>) =>
        /\ result.text = Sanitize(passes[Len(passes)].filtered)
        /\ Sanitize(result.text) = result.text
        /\ Sanitize(UnreadableText) = UnreadableText

C14_Witness ==
    /\ ipc = "done"
    /\ Len(passes) = 2
    /\ passes[1].filtered = <<32>>
    /\ passes[2].filtered = <<10, 32, 10>>
    /\ result.text = UnreadableText

\* d is side times the fraction f, rounded to an integer
WithinRounding(d, f, side) ==
    LET diff == 2 * f[2] * d - 2 * f[1] * side
    IN diff >= -f[2] /\ diff <= f[2]

\* f is at least the fraction a
AtLeast(f, a) == f[1] * a[2] >= a[1] * f[2]

\* C15: an image narrower than 500 or lower than 250 is scaled by the one
\* factor max(500/w, 250/h) on both sides, so the image given to recognition
\* is at least 500 wide and 250 high; an image with both sides large enough
\* is not scaled.
C15_UpscaleToFloor ==
    final_image # NoPix =>
        LET w == image_data.w
            h == image_data.h
            scaledUp == \E i \in 1..Len(created) : created[i] = "scaled"
        IN IF w < 500 \/ h < 250
           THEN /\ scaledUp
                /\ \E f \in {<<500, w>>, <<250, h>>} :
                      /\ AtLeast(f, <<500, w>>)
                      /\ AtLeast(f, <<250, h>>)
                      /\ WithinRounding(dims[1], f, w)
                      /\ WithinRounding(dims[2], f, h)
                /\ dims[1] >= 500
                /\ dims[2] >= 250
           ELSE /\ ~scaledUp
                /\ dims = <<w, h>>

C15_Witness ==
    /\ ipc = "check"
    /\ image_data.w = 3
    /\ image_data.h = 7
    /\ dims = <<500, 1167>>
    /\ passes[1].image = final_image

\* C16: the live handles are always the ones `scaled` and `binary` point to,
\* and none is live when process_image has returned, on every path.
C16_NoHandleLeak ==
    /\ live = {scaled, binary} \ {NoPix}
    /\ ipc = "done" => live = {}

C16_Witness ==
    /\ ipc = "done"
    /\ created = <<"image", "gray", "scaled", "sharpened", "contrast", "binary">>
    /\ Len(passes) = 2
    /\ live = {}

\* C17: whichever of the three optional stages fail, the image written as PNG
\* and given to every recognition pass is the output of the last stage that
\* produced one, and the run ends with recognized text or "[UNREADABLE]",
\* not with an "[ERROR: ...]" text.
C17_OptionalStagesDegrade ==
    /\ final_image # NoPix =>
          /\ final_image = created[Len(created)]
          /\ processed_data = <<"png", final_image>>
          /\ \A i \in 1..Len(passes) : passes[i].image = final_image
    /\ (ipc = "done" /\ created # <<>>) =>
          /\ passes # <<>>
          /\ ~HasErrorPrefix(result.text)
          /\ result.processed_image = <<"png", created[Len(created)]>>

C17_Witness ==
    /\ ipc = "done"
    /\ created = <<"image", "gray">>
    /\ final_image = "gray"
    /\ Len(passes) = 1
    /\ result.text = <<65>>

=============================================================================
